---- MODULE Spec2Model ----
(***************************************************************************)
(* Model of go-anyway/framework-interceptor: the gRPC metrics interceptor, *)
(* the trace/log server interceptor, the client trace interceptor, the     *)
(* metadata carrier and generateRequestID.                                 *)
(*                                                                         *)
(* Go strings are sequences of one-character strings, so that lengths and  *)
(* letter case are computed and not assumed: "" is << >>.  Header keys,    *)
(* header values and identifiers are all such sequences.  Method names and *)
(* status code names are only ever compared with each other and stay TLA+  *)
(* strings.                                                                *)
(***************************************************************************)
EXTENDS Integers, Sequences, FiniteSets, TLC

VARIABLES
    pc,       \* per call: where the interceptor invocation stands
    call,     \* per call: the arguments of the invocation (kind, method, metadata)
    ctx,      \* per call: the context.Context value the interceptor holds
    loc,      \* per call: the closure's local variables
    span,     \* per call: the span returned by trace.StartSpan
    events,   \* per call: the externally visible steps, in order
    ret,      \* per call: what the interceptor returned to its caller
    GRPCRequestTotal,     \* metrics.GRPCRequestTotal: label pair -> count
    GRPCRequestDuration,  \* metrics.GRPCRequestDuration: label pair -> [count, sum]
    started,  \* number of metrics calls begun so far (bounds the run)
    carrier,  \* the header collection under a metadataCarrier
    op,       \* the last carrier operation and its result
    prevOp,   \* the carrier operation before it
    genIn,    \* generateRequestID: outcome of rand.Read and of time.Now
    genOut    \* generateRequestID: the value returned

callVars == <<pc, call, ctx, loc, span, events, ret>>
metricVars == <<GRPCRequestTotal, GRPCRequestDuration, started>>
carrierVars == <<carrier, op, prevOp>>
genVars == <<genIn, genOut>>
vars == <<pc, call, ctx, loc, span, events, ret, GRPCRequestTotal,
          GRPCRequestDuration, started, carrier, op, prevOp, genIn, genOut>>

(***************************************************************************)
(* Bounds of the model.                                                    *)
(***************************************************************************)
NCalls == 2        \* concurrent invocations of one interceptor value
MaxCalls == 2      \* metrics calls begun in one run
MaxClock == 1      \* readings of the monotonic clock are 0..MaxClock
MaxSeed == 3       \* families of random byte strings and of clock readings

Calls == 1..NCalls
SeqCalls == {c \in Calls : \A d \in Calls : c <= d}

(***************************************************************************)
(* Strings.                                                                *)
(***************************************************************************)
EmptyStr == << >>
UpperChars == <<"A","B","C","D","E","F","G","H","I","J","K","L","M",
                "N","O","P","Q","R","S","T","U","V","W","X","Y","Z">>
LowerChars == <<"a","b","c","d","e","f","g","h","i","j","k","l","m",
                "n","o","p","q","r","s","t","u","v","w","x","y","z">>

LowerChar(ch) ==
    IF \E i \in DOMAIN UpperChars : UpperChars[i] = ch
    THEN LowerChars[CHOOSE i \in DOMAIN UpperChars : UpperChars[i] = ch]
    ELSE ch

\* strings.ToLower, as metadata.MD applies it to every key
ToLower(s) == [i \in 1..Len(s) |-> LowerChar(s[i])]

XTraceID == <<"x","-","t","r","a","c","e","-","i","d">>
XRequestID == <<"x","-","r","e","q","u","e","s","t","-","i","d">>
TraceParent == <<"t","r","a","c","e","p","a","r","e","n","t">>
XCustom == <<"x","-","c","u","s","t","o","m">>

ValA == <<"a","1">>
ValB == <<"b","2">>
RemoteTrace == <<"r","e","m">>
FreshTrace == <<"n","e","w">>

(***************************************************************************)
(* generateRequestID (trace_interceptor.go:187-194).                       *)
(***************************************************************************)
IDBytes == 16
NanoDigits == 16   \* an int64 has 16 hexadecimal digits

HexChars == <<"0","1","2","3","4","5","6","7","8","9","a","b","c","d","e","f">>
HexDigit(n) == HexChars[n + 1]

\* hex.EncodeToString: two digits per byte, high nibble first
EncodeToString(b) ==
    [i \in 1..(2 * Len(b)) |->
        IF i % 2 = 1 THEN HexDigit(b[(i + 1) \div 2] \div 16)
                     ELSE HexDigit(b[i \div 2] % 16)]

\* fmt.Sprintf("%x", n) for a non-negative int64 n given by its 16 nibbles,
\* most significant first: no leading zeros, "0" for zero
SprintfHex(nibbles) ==
    IF \A i \in DOMAIN nibbles : nibbles[i] = 0
    THEN <<"0">>
    ELSE LET first == CHOOSE i \in DOMAIN nibbles :
                          /\ nibbles[i] # 0
                          /\ \A j \in DOMAIN nibbles : j < i => nibbles[j] = 0
         IN  [i \in 1..(Len(nibbles) - first + 1) |-> HexDigit(nibbles[first + i - 1])]

\* generateRequestID with a fallback that gives up: used to show which
\* properties rest on the fallback
generateRequestIDNoFallback(in) ==
    IF ~in.randOK
    THEN EmptyStr
    ELSE EncodeToString(in.b)

\* in: [randOK |-> rand.Read returned a nil error, b |-> the bytes read,
\*      nano |-> time.Now().UnixNano()]
generateRequestID(in) ==
    IF ~in.randOK
    THEN SprintfHex(in.nano)
    ELSE EncodeToString(in.b)

\* what rand.Read may leave in b
RandBytes(seed, step) == [i \in 1..IDBytes |-> (seed * 37 + i * step) % 256]

\* readings of time.Now().UnixNano() whose first zeros digits are zero; a
\* reading of today has no leading zero (0x18...)
NanoTime(zeros, seed) ==
    [i \in 1..NanoDigits |->
        IF i <= zeros THEN 0
        ELSE IF i = 1 THEN 1
        ELSE IF i = zeros + 1 THEN 1 + ((seed + i) % 15)
        ELSE (seed * 5 + i * 3) % 16]

NoGenIn == [randOK |-> TRUE, b |-> RandBytes(0, 0), nano |-> NanoTime(0, 0)]

GenInputs(seeds) ==
    {[randOK |-> TRUE, b |-> RandBytes(s, t), nano |-> NanoTime(0, s)] :
        s \in seeds, t \in 0..IDBytes}
    \cup
    {[randOK |-> FALSE, b |-> RandBytes(0, 0), nano |-> NanoTime(0, s)] :
        s \in seeds}

(***************************************************************************)
(* metadata.MD and metadataCarrier (trace_interceptor.go:117-137).  An MD  *)
(* is a function from keys to value lists; MD.Get and MD.Set lower-case    *)
(* the key they are given.                                                 *)
(***************************************************************************)
EmptyMD == [k \in {} |-> << >>]

MDGet(md, key) ==
    IF ToLower(key) \in DOMAIN md THEN md[ToLower(key)] ELSE << >>

MDSet(md, key, value) ==
    [k \in DOMAIN md \cup {ToLower(key)} |->
        IF k = ToLower(key) THEN <<value>> ELSE md[k]]

\* Get taking the last value of a key instead of the first
CarrierGetLast(m, key) ==
    LET values == MDGet(m, key)
    IN  IF Len(values) > 0 THEN values[Len(values)] ELSE EmptyStr

CarrierGet(m, key) ==
    LET values == MDGet(m, key)
    IN  IF Len(values) > 0 THEN values[1] ELSE EmptyStr

CarrierSet(m, key, value) == MDSet(m, key, value)

\* the orders in which ranging over the map may yield its keys
CarrierKeys(m) ==
    {s \in [1..Cardinality(DOMAIN m) -> DOMAIN m] :
        \A i, j \in DOMAIN s : i # j => s[i] # s[j]}

(***************************************************************************)
(* Errors and status codes.                                                *)
(***************************************************************************)
NilErr == [kind |-> "nil", code |-> "OK"]
PlainErr == [kind |-> "plain", code |-> "deadline exceeded"]
StatusErr(code) == [kind |-> "status", code |-> code]

Errs == {NilErr, PlainErr, StatusErr("NotFound"), StatusErr("Internal")}
Codes == {"OK", "Unknown", "NotFound", "Internal"}

\* status.Code(err).String()
StatusCode(err) ==
    CASE err.kind = "nil" -> "OK"
      [] err.kind = "status" -> err.code
      [] OTHER -> "Unknown"

(***************************************************************************)
(* The call context, the propagator and the tracer.  A context carries the *)
(* inbound metadata, the remote span context a propagator extracted, the   *)
(* trace identifier of the active span, the two log identifiers and the    *)
(* outbound metadata.                                                      *)
(***************************************************************************)
NoMD == [ok |-> FALSE, md |-> EmptyMD]
SomeMD(md) == [ok |-> TRUE, md |-> md]

Background ==
    [in |-> NoMD, remote |-> EmptyStr, spanTrace |-> EmptyStr,
     logTraceID |-> EmptyStr, logRequestID |-> EmptyStr, out |-> NoMD]

\* the global propagator and tracer the process was configured with
Propagators(wide) == IF wide THEN {"none", "tracecontext"} ELSE {"tracecontext"}
Tracers(wide) == IF wide THEN {"noop", "sdk"} ELSE {"sdk"}

\* propagator.Extract(ctx, metadataCarrier(md)): reads through the carrier
Extract(propagator, c, md) ==
    IF propagator = "tracecontext" /\ CarrierGet(md, TraceParent) # EmptyStr
    THEN [c EXCEPT !.remote = CarrierGet(md, TraceParent)]
    ELSE c

\* propagator.Inject(ctx, carrier): writes through the carrier
Inject(propagator, c, md) ==
    IF propagator = "tracecontext" /\ c.spanTrace # EmptyStr
    THEN CarrierSet(md, TraceParent, c.spanTrace)
    ELSE md

\* trace.StartSpan: the span continues the parent's trace when there is one;
\* a configured tracer starts a new trace otherwise, the no-op tracer none
StartSpan(tracer, c) ==
    LET parent == IF c.spanTrace # EmptyStr THEN c.spanTrace ELSE c.remote
    IN  [c EXCEPT !.spanTrace =
            IF parent # EmptyStr THEN parent
            ELSE IF tracer = "sdk" THEN FreshTrace ELSE EmptyStr]

TraceIDFromContext(c) == c.spanTrace
ContextWithTraceID(c, id) == [c EXCEPT !.logTraceID = id]
ContextWithRequestID(c, id) == [c EXCEPT !.logRequestID = id]
FromIncomingContext(c) == c.in
\* a copy of the caller's metadata: writing to it leaves the caller's alone
FromOutgoingContext(c) == c.out
NewOutgoingContext(c, md) == [c EXCEPT !.out = SomeMD(md)]

NoAttrs == [k \in {} |-> ""]
NoSpan == [started |-> FALSE, name |-> "", attrs |-> NoAttrs,
           recorded |-> NilErr, ended |-> 0]
NewSpan(name) == [NoSpan EXCEPT !.started = TRUE, !.name = name]
SetAttributes(sp, kv) ==
    [sp EXCEPT !.attrs = [k \in DOMAIN sp.attrs \cup DOMAIN kv |->
                             IF k \in DOMAIN kv THEN kv[k] ELSE sp.attrs[k]]]
RecordError(sp, err) == [sp EXCEPT !.recorded = err]
End(sp) == [sp EXCEPT !.ended = sp.ended + 1]

(***************************************************************************)
(* Inputs.  The wide sets are used by the runs with one call at a time,    *)
(* the narrow ones by the runs with concurrent calls.                      *)
(***************************************************************************)
Methods(wide) == IF wide THEN {"/svc/A", "/svc/B"} ELSE {"/svc/A"}
Resps == {"nil", "resp"}
Results(wide) ==
    IF wide THEN Resps \X Errs
    ELSE {<<"resp", NilErr>>, <<"nil", PlainErr>>}

MDsOver(keysets, lists) == UNION {[S -> lists] : S \in keysets}

\* inbound metadata as metadata.FromIncomingContext yields it: lower-case keys
Inbound(wide) ==
    IF wide
    THEN {NoMD} \cup
         {SomeMD([k \in DOMAIN ids \cup DOMAIN tp |->
                     IF k \in DOMAIN ids THEN ids[k] ELSE tp[k]]) :
             ids \in MDsOver(SUBSET {XTraceID, XRequestID},
                             {<<EmptyStr>>, <<ValA>>, <<ValB, ValA>>}),
             tp \in MDsOver(SUBSET {TraceParent}, {<<RemoteTrace>>})}
    ELSE {NoMD} \cup
         {SomeMD([k \in {XTraceID, XRequestID} |-> <<v>>]) : v \in {ValA, ValB}}

\* the caller's outbound metadata, as metadata.FromOutgoingContext yields it
Outbound(wide) ==
    IF wide
    THEN {NoMD} \cup
         {SomeMD(m) : m \in MDsOver(SUBSET {XCustom, TraceParent},
                                    {<<ValA>>, <<ValB, ValA>>})}
    ELSE {NoMD, SomeMD([k \in {XCustom} |-> <<ValA>>])}

\* the trace of the span active in a client caller's context, if any
Parents(wide) == IF wide THEN {EmptyStr, RemoteTrace} ELSE {RemoteTrace}

TraceGenInputs(wide) ==
    IF wide
    THEN {[randOK |-> TRUE, b |-> RandBytes(1, 7), nano |-> NanoTime(0, 1)],
          [randOK |-> FALSE, b |-> RandBytes(0, 0), nano |-> NanoTime(0, 1)],
          [randOK |-> FALSE, b |-> RandBytes(0, 0), nano |-> NanoTime(NanoDigits, 0)]}
    ELSE {[randOK |-> TRUE, b |-> RandBytes(1, 7), nano |-> NanoTime(0, 1)]}

(***************************************************************************)
(* Per-call state.                                                         *)
(***************************************************************************)
NoCall == [kind |-> "none", method |-> "", md |-> NoMD]
NoLoc == [traceID |-> EmptyStr, requestID |-> EmptyStr,
          genCalled |-> FALSE, randOK |-> TRUE, gen |-> NoGenIn,
          handlerCalls |-> 0, seen |-> Background,
          resp |-> "nil", err |-> NilErr,
          start |-> 0, duration |-> 0, wrote |-> {}]
NoRet == [returned |-> FALSE, resp |-> "nil", err |-> NilErr]

\* a return that converts the handler's error into a status error
ReturnedConverted(resp, err) ==
    [returned |-> TRUE, resp |-> resp,
     err |-> IF err = NilErr THEN NilErr ELSE StatusErr("Internal")]

\* "return resp, err" (and "return err" in the client interceptor)
Returned(resp, err) == [returned |-> TRUE, resp |-> resp, err |-> err]

\* a context variable shared by all invocations of the interceptor value
HandlerContextShared(c) == ctx[CHOOSE d \in Calls : \A e \in Calls : d <= e]

\* the context the interceptor hands to the handler (or invoker) of call c
HandlerContext(c) == ctx[c]

(***************************************************************************)
(* TraceUnaryInterceptor (trace_interceptor.go:38-114).                    *)
(***************************************************************************)
\* md.Get(key) followed by "if len(values) > 0 { id = values[0] }"
HeaderFirst(in, key) ==
    IF in.ok /\ Len(MDGet(in.md, key)) > 0 THEN MDGet(in.md, key)[1] ELSE EmptyStr

\* the span's trace identifier taking precedence over the header
ResolveTraceIDSpanFirst(header, c) ==
    IF TraceIDFromContext(c) # EmptyStr THEN TraceIDFromContext(c) ELSE header

\* lines 63-65: the header's value unless it is empty
ResolveTraceID(header, c) ==
    IF header = EmptyStr THEN TraceIDFromContext(c) ELSE header

\* lines 66-68
ResolveRequestID(header, gen) ==
    IF header = EmptyStr THEN generateRequestID(gen) ELSE header

\* lines 70-76
StoreIDs(c, traceID, requestID) ==
    LET c1 == IF traceID # EmptyStr THEN ContextWithTraceID(c, traceID) ELSE c
    IN  IF requestID # EmptyStr THEN ContextWithRequestID(c1, requestID) ELSE c1

\* lines 78-86
StartEvents(traceID, requestID) ==
    IF traceID # EmptyStr \/ requestID # EmptyStr
    THEN <<"span.start", "log.started">>
    ELSE <<"span.start">>

\* the span ended before the closing event, and a failure logged as completion
CloseEventsEndFirst(c, err) ==
    <<"span.attrs", "span.end">>
    \o (IF c.logTraceID # EmptyStr \/ c.logRequestID # EmptyStr
        THEN <<"log.completed">>
        ELSE << >>)

\* lines 97-110 and the deferred span.End of line 49
CloseEvents(c, err) ==
    <<"span.attrs">>
    \o (IF c.logTraceID # EmptyStr \/ c.logRequestID # EmptyStr
        THEN IF err # NilErr THEN <<"log.failed">> ELSE <<"log.completed">>
        ELSE << >>)
    \o <<"span.end">>

\* a preamble that gives up on a call without inbound metadata
AfterPreambleRejecting(md) == IF md.ok THEN "trace.handler" ELSE "trace.post"

\* no path through lines 41-86 returns: the handler of line 89 comes next
AfterPreamble(md) == "trace.handler"

\* lines 41-86: everything up to the call of the handler
TraceBegin(c, wide) ==
    /\ pc[c] = "idle"
    /\ \E in \in Inbound(wide), method \in Methods(wide),
          propagator \in Propagators(wide), tracer \in Tracers(wide),
          gen \in TraceGenInputs(wide) :
          LET c0 == [Background EXCEPT !.in = in]
              md == FromIncomingContext(c0)
              c1 == IF md.ok THEN Extract(propagator, c0, md.md) ELSE c0
              c2 == StartSpan(tracer, c1)
              hT == HeaderFirst(md, XTraceID)
              hR == HeaderFirst(md, XRequestID)
              traceID == ResolveTraceID(hT, c2)
              requestID == ResolveRequestID(hR, gen)
              c3 == StoreIDs(c2, traceID, requestID)
          IN  /\ call' = [call EXCEPT ![c] =
                            [kind |-> "trace", method |-> method, md |-> in]]
              /\ ctx' = [ctx EXCEPT ![c] = c3]
              /\ loc' = [loc EXCEPT ![c] =
                            [NoLoc EXCEPT !.traceID = traceID,
                                          !.requestID = requestID,
                                          !.genCalled = (hR = EmptyStr),
                                          !.gen = IF hR = EmptyStr THEN gen
                                                  ELSE NoGenIn,
                                          !.randOK = (hR = EmptyStr) => gen.randOK]]
              /\ span' = [span EXCEPT ![c] = NewSpan(method)]
              /\ events' = [events EXCEPT ![c] = StartEvents(traceID, requestID)]
              /\ pc' = [pc EXCEPT ![c] = AfterPreamble(md)]
    /\ UNCHANGED <<ret, metricVars, carrierVars, genVars>>

\* line 89: the handler runs and returns
TraceHandler(c, wide) ==
    /\ pc[c] = "trace.handler"
    /\ \E r \in Results(wide) :
          loc' = [loc EXCEPT ![c].handlerCalls = @ + 1,
                             ![c].seen = HandlerContext(c),
                             ![c].resp = r[1],
                             ![c].err = r[2]]
    /\ events' = [events EXCEPT ![c] = Append(@, "handler")]
    /\ pc' = [pc EXCEPT ![c] = "trace.post"]
    /\ UNCHANGED <<call, ctx, span, ret, metricVars, carrierVars, genVars>>

\* lines 91-112, then the deferred span.End
TraceFinish(c) ==
    /\ pc[c] = "trace.post"
    /\ span' = [span EXCEPT ![c] =
                  End(SetAttributes(@,
                      [k \in {"rpc.method", "rpc.status_code"} |->
                          IF k = "rpc.method" THEN call[c].method
                          ELSE StatusCode(loc[c].err)]))]
    /\ events' = [events EXCEPT ![c] = @ \o CloseEvents(ctx[c], loc[c].err)]
    /\ ret' = [ret EXCEPT ![c] =
                  Returned(loc[c].resp, loc[c].err)]
    /\ pc' = [pc EXCEPT ![c] = "done"]
    /\ UNCHANGED <<call, ctx, loc, metricVars, carrierVars, genVars>>

\* the invocation is over: nothing of it outlives the call
Return(c) ==
    /\ pc[c] = "done"
    /\ pc' = [pc EXCEPT ![c] = "idle"]
    /\ call' = [call EXCEPT ![c] = NoCall]
    /\ ctx' = [ctx EXCEPT ![c] = Background]
    /\ loc' = [loc EXCEPT ![c] = NoLoc]
    /\ span' = [span EXCEPT ![c] = NoSpan]
    /\ events' = [events EXCEPT ![c] = << >>]
    /\ ret' = [ret EXCEPT ![c] = NoRet]
    /\ UNCHANGED <<metricVars, carrierVars, genVars>>

(***************************************************************************)
(* MetricsUnaryInterceptor (metrics_interceptor.go:31-50).                 *)
(***************************************************************************)
Labels == Methods(TRUE) \X Codes
NoCounts == [l \in Labels |-> 0]
NoObservations == [l \in Labels |-> [count |-> 0, sum |-> 0]]

\* a label that ignores the error's status code
StatusLabelCoarse(err) == IF err = NilErr THEN "OK" ELSE "Unknown"

\* lines 40-43
StatusLabel(err) ==
    LET code == StatusCode(err)
    IN  IF err = NilErr THEN "OK" ELSE code

\* Counter.Inc and Histogram.Observe are atomic in the metrics library
Inc(counter, label) == [counter EXCEPT ![label] = @ + 1]
Observe(histogram, label, d) ==
    [histogram EXCEPT ![label] = [count |-> @.count + 1, sum |-> @.sum + d]]

\* readings of the monotonic clock at or after reading t
ClockFrom(t, wide) == IF wide THEN t..MaxClock ELSE {t}

MetricsInbound(wide) ==
    IF wide THEN {NoMD, SomeMD([k \in {XRequestID} |-> <<ValA>>])} ELSE {NoMD}

\* line 33
MetricsBegin(c, wide) ==
    /\ pc[c] = "idle"
    /\ started < MaxCalls
    /\ \E in \in MetricsInbound(wide), method \in Methods(wide),
          now \in ClockFrom(0, wide) :
          /\ call' = [call EXCEPT ![c] =
                        [kind |-> "metrics", method |-> method, md |-> in]]
          /\ ctx' = [ctx EXCEPT ![c] = [Background EXCEPT !.in = in]]
          /\ loc' = [loc EXCEPT ![c] = [NoLoc EXCEPT !.start = now]]
    /\ started' = started + 1
    /\ pc' = [pc EXCEPT ![c] = "metrics.handler"]
    /\ UNCHANGED <<span, events, ret, GRPCRequestTotal, GRPCRequestDuration,
                   carrierVars, genVars>>

\* line 36
MetricsHandler(c, wide) ==
    /\ pc[c] = "metrics.handler"
    /\ \E r \in Results(wide) :
          loc' = [loc EXCEPT ![c].handlerCalls = @ + 1,
                             ![c].seen = HandlerContext(c),
                             ![c].resp = r[1],
                             ![c].err = r[2]]
    /\ events' = [events EXCEPT ![c] = Append(@, "handler")]
    /\ pc' = [pc EXCEPT ![c] = "metrics.inc"]
    /\ UNCHANGED <<call, ctx, span, ret, metricVars, carrierVars, genVars>>

\* lines 39-45
MetricsInc(c, wide) ==
    /\ pc[c] = "metrics.inc"
    /\ \E now \in ClockFrom(loc[c].start, wide) :
          loc' = [loc EXCEPT ![c].duration = now - loc[c].start]
    /\ GRPCRequestTotal' =
          Inc(GRPCRequestTotal, <<call[c].method, StatusLabel(loc[c].err)>>)
    /\ events' = [events EXCEPT ![c] = Append(@, "counter.inc")]
    /\ pc' = [pc EXCEPT ![c] = "metrics.observe"]
    /\ UNCHANGED <<call, ctx, span, ret, GRPCRequestDuration, started,
                   carrierVars, genVars>>

\* lines 46-48
MetricsObserve(c) ==
    /\ pc[c] = "metrics.observe"
    /\ GRPCRequestDuration' =
          Observe(GRPCRequestDuration,
                  <<call[c].method, StatusLabel(loc[c].err)>>, loc[c].duration)
    /\ events' = [events EXCEPT ![c] = Append(@, "histogram.observe")]
    /\ ret' = [ret EXCEPT ![c] =
                  Returned(loc[c].resp, loc[c].err)]
    /\ pc' = [pc EXCEPT ![c] = "done"]
    /\ UNCHANGED <<call, ctx, loc, span, GRPCRequestTotal, started,
                   carrierVars, genVars>>

(***************************************************************************)
(* TraceUnaryClientInterceptor (trace_interceptor.go:141-184).             *)
(***************************************************************************)
\* lines 171-180
ClientStatus(sp, err) ==
    IF err # NilErr
    THEN RecordError(SetAttributes(sp,
             [k \in {"rpc.status_code"} |-> StatusCode(err)]), err)
    ELSE SetAttributes(sp, [k \in {"rpc.status_code"} |-> "OK"])

\* outbound metadata always built over a fresh collection
OutgoingMDFresh(propagator, c) == Inject(propagator, c, EmptyMD)

\* lines 149-159: the outbound metadata handed on
OutgoingMD(propagator, c) ==
    LET got == FromOutgoingContext(c)
        md == IF ~got.ok THEN EmptyMD ELSE got.md
    IN  Inject(propagator, c, md)

\* lines 144-165: everything up to the call of the invoker
ClientBegin(c, wide) ==
    /\ pc[c] = "idle"
    /\ \E out \in Outbound(wide), method \in Methods(wide),
          parent \in Parents(wide),
          propagator \in Propagators(wide), tracer \in Tracers(wide) :
          LET c0 == [Background EXCEPT !.out = out, !.spanTrace = parent]
              c1 == StartSpan(tracer, c0)
              md == OutgoingMD(propagator, c1)
              c2 == NewOutgoingContext(c1, md)
          IN  /\ call' = [call EXCEPT ![c] =
                            [kind |-> "client", method |-> method, md |-> out]]
              /\ ctx' = [ctx EXCEPT ![c] = c2]
              /\ loc' = [loc EXCEPT ![c] =
                            [NoLoc EXCEPT !.wrote = DOMAIN Inject(propagator, c1, EmptyMD)]]
              /\ span' = [span EXCEPT ![c] =
                            SetAttributes(NewSpan(method),
                                [k \in {"rpc.method", "rpc.system"} |->
                                    IF k = "rpc.method" THEN method ELSE "grpc"])]
    /\ events' = [events EXCEPT ![c] = <<"span.start", "inject", "span.attrs">>]
    /\ pc' = [pc EXCEPT ![c] = "client.invoker"]
    /\ UNCHANGED <<ret, metricVars, carrierVars, genVars>>

\* line 168: the invoker runs and returns
ClientInvoke(c, wide) ==
    /\ pc[c] = "client.invoker"
    /\ \E r \in Results(wide) :
          loc' = [loc EXCEPT ![c].handlerCalls = @ + 1,
                             ![c].seen = HandlerContext(c),
                             ![c].err = r[2]]
    /\ events' = [events EXCEPT ![c] = Append(@, "invoker")]
    /\ pc' = [pc EXCEPT ![c] = "client.post"]
    /\ UNCHANGED <<call, ctx, span, ret, metricVars, carrierVars, genVars>>

\* lines 170-182, then the deferred span.End
ClientFinish(c) ==
    /\ pc[c] = "client.post"
    /\ span' = [span EXCEPT ![c] = End(ClientStatus(@, loc[c].err))]
    /\ events' = [events EXCEPT ![c] = @ \o <<"span.status", "span.end">>]
    /\ ret' = [ret EXCEPT ![c] =
                  Returned("nil", loc[c].err)]
    /\ pc' = [pc EXCEPT ![c] = "done"]
    /\ UNCHANGED <<call, ctx, loc, metricVars, carrierVars, genVars>>

(***************************************************************************)
(* The carrier on its own: Set, Get and Keys applied to a header           *)
(* collection.                                                             *)
(***************************************************************************)
XCustomMixed == <<"X","-","C","u","s","t","o","m">>
CarrierKeyInputs == {XCustom, XCustomMixed, XTraceID}
CarrierValues == {EmptyStr, ValA, ValB}
\* collections as metadata.New and metadata.FromIncomingContext build them
CarrierInitial ==
    MDsOver(SUBSET {XCustom, XTraceID}, {<<EmptyStr>>, <<ValA>>, <<ValB, ValA>>})

NoOp == [name |-> "none", key |-> EmptyStr, value |-> EmptyStr,
         before |-> EmptyMD, got |-> EmptyStr, keys |-> << >>]

DoSet ==
    \E k \in CarrierKeyInputs, v \in CarrierValues :
        /\ carrier' = CarrierSet(carrier, k, v)
        /\ op' = [NoOp EXCEPT !.name = "Set", !.key = k, !.value = v,
                              !.before = carrier]
        /\ prevOp' = op
        /\ UNCHANGED <<callVars, metricVars, genVars>>

DoGet ==
    \E k \in CarrierKeyInputs :
        /\ op' = [NoOp EXCEPT !.name = "Get", !.key = k, !.before = carrier,
                              !.got = CarrierGet(carrier, k)]
        /\ prevOp' = op
        /\ UNCHANGED <<carrier, callVars, metricVars, genVars>>

DoKeys ==
    \E s \in CarrierKeys(carrier) :
        /\ op' = [NoOp EXCEPT !.name = "Keys", !.before = carrier, !.keys = s]
        /\ prevOp' = op
        /\ UNCHANGED <<carrier, callVars, metricVars, genVars>>

(***************************************************************************)
(* generateRequestID on its own.                                           *)
(***************************************************************************)
NoGenOut == [done |-> FALSE, id |-> EmptyStr]

Generate ==
    /\ ~genOut.done
    /\ genOut' = [done |-> TRUE, id |-> generateRequestID(genIn)]
    /\ UNCHANGED <<genIn, callVars, metricVars, carrierVars>>

\* the next call of the function: new outcomes of rand.Read and time.Now
Regenerate ==
    /\ genOut.done
    /\ genIn' \in GenInputs(0..MaxSeed)
    /\ genOut' = NoGenOut
    /\ UNCHANGED <<callVars, metricVars, carrierVars>>

(***************************************************************************)
(* Specifications.                                                         *)
(***************************************************************************)
InitCalls ==
    /\ pc = [c \in Calls |-> "idle"]
    /\ call = [c \in Calls |-> NoCall]
    /\ ctx = [c \in Calls |-> Background]
    /\ loc = [c \in Calls |-> NoLoc]
    /\ span = [c \in Calls |-> NoSpan]
    /\ events = [c \in Calls |-> << >>]
    /\ ret = [c \in Calls |-> NoRet]
    /\ GRPCRequestTotal = NoCounts
    /\ GRPCRequestDuration = NoObservations
    /\ started = 0

Init ==
    /\ InitCalls
    /\ carrier = EmptyMD /\ op = NoOp /\ prevOp = NoOp
    /\ genIn = NoGenIn /\ genOut = NoGenOut

\* one call at a time through the trace interceptors, over the wide inputs
Next ==
    \E c \in SeqCalls :
        \/ TraceBegin(c, TRUE)
        \/ TraceHandler(c, TRUE)
        \/ TraceFinish(c)
        \/ ClientBegin(c, TRUE)
        \/ ClientInvoke(c, TRUE)
        \/ ClientFinish(c)
        \/ Return(c)

Spec == Init /\ [][Next]_vars

\* one call at a time through the metrics interceptor, over the wide inputs
NextMetrics ==
    \E c \in SeqCalls :
        \/ MetricsBegin(c, TRUE)
        \/ MetricsHandler(c, TRUE)
        \/ MetricsInc(c, TRUE)
        \/ MetricsObserve(c)
        \/ Return(c)

SpecMetrics == Init /\ [][NextMetrics]_vars

\* concurrent calls through the three interceptors
NextConc ==
    \E c \in Calls :
        \/ TraceBegin(c, FALSE)
        \/ TraceHandler(c, FALSE)
        \/ TraceFinish(c)
        \/ MetricsBegin(c, FALSE)
        \/ MetricsHandler(c, FALSE)
        \/ MetricsInc(c, FALSE)
        \/ MetricsObserve(c)
        \/ ClientBegin(c, FALSE)
        \/ ClientInvoke(c, FALSE)
        \/ ClientFinish(c)
        \/ Return(c)

SpecConc == Init /\ [][NextConc]_vars

InitCarrier ==
    /\ InitCalls
    /\ carrier \in CarrierInitial /\ op = NoOp /\ prevOp = NoOp
    /\ genIn = NoGenIn /\ genOut = NoGenOut

NextCarrier == DoSet \/ DoGet \/ DoKeys

SpecCarrier == InitCarrier /\ [][NextCarrier]_vars

InitGen ==
    /\ InitCalls
    /\ carrier = EmptyMD /\ op = NoOp /\ prevOp = NoOp
    /\ genIn \in GenInputs(0..MaxSeed) /\ genOut = NoGenOut

NextGen == Generate \/ Regenerate

SpecGen == InitGen /\ [][NextGen]_vars

(***************************************************************************)
(* Properties.                                                             *)
(***************************************************************************)
RECURSIVE SumOver(_, _)
SumOver(f, S) ==
    IF S = {} THEN 0
    ELSE LET x == CHOOSE y \in S : TRUE
         IN  f[x] + SumOver(f, S \ {x})

CounterTotal == SumOver(GRPCRequestTotal, Labels)
ObservationTotal == SumOver([l \in Labels |-> GRPCRequestDuration[l].count], Labels)

IsServer(c) == call[c].kind \in {"trace", "metrics"}
HandlerReturned(c) == pc[c] \in {"trace.post", "metrics.inc", "metrics.observe",
                                 "client.post", "done"}

\* the inbound metadata has header key, with at least one value
HasHeader(md, key) == md.ok /\ key \in DOMAIN md.md /\ Len(md.md[key]) > 0
FirstValue(md, key) == md.md[key][1]

\* C1: every interceptor returns exactly what its handler (or invoker)
\* returned: the two server interceptors the same response and the same
\* error, the client interceptor the same error.
C1_ReturnsHandlerResult ==
    \A c \in Calls :
        ret[c].returned =>
            /\ HandlerReturned(c)
            /\ ret[c].err = loc[c].err
            /\ IsServer(c) => ret[c].resp = loc[c].resp

C1_Witness ==
    \E c, d \in Calls :
        /\ call[c].kind = "trace" /\ ret[c].returned /\ ret[c].err # NilErr
        /\ call[d].kind = "metrics" /\ ret[d].returned /\ ret[d].resp = "resp"

\* C2: in the metrics and the trace server interceptor, with or without
\* inbound metadata, the handler is invoked exactly once; once the handler
\* has returned the interceptor's remaining steps can always run, and a call
\* whose handler returned a nil error never ends with a non-nil error.
C2_HandlerExactlyOnce ==
    \A c \in Calls :
        IsServer(c) =>
            /\ loc[c].handlerCalls = (IF HandlerReturned(c) THEN 1 ELSE 0)
            /\ ret[c].returned => loc[c].handlerCalls = 1
            /\ pc[c] = "trace.handler" => ENABLED TraceHandler(c, FALSE)
            /\ pc[c] = "metrics.handler" => ENABLED MetricsHandler(c, FALSE)
            /\ pc[c] = "trace.post" => ENABLED TraceFinish(c)
            /\ pc[c] = "metrics.inc" => ENABLED MetricsInc(c, FALSE)
            /\ pc[c] = "metrics.observe" => ENABLED MetricsObserve(c)
            /\ (ret[c].returned /\ loc[c].err = NilErr) => ret[c].err = NilErr

C2_Witness ==
    \E c, d \in Calls :
        /\ call[c].kind = "trace" /\ ~call[c].md.ok /\ ret[c].returned
        /\ loc[c].handlerCalls = 1 /\ ret[c].err = NilErr
        /\ call[d].kind = "metrics" /\ ret[d].returned /\ loc[d].handlerCalls = 1

\* C3: every identifier generateRequestID returns is exactly 32 characters
\* long, on the path where rand.Read fails too.
RequestIDLen == 32
CarrierBasics ==
    /\ (op.name = "Get" /\ prevOp.name = "Set" /\ prevOp.key = op.key) =>
          op.got = prevOp.value
    /\ (op.name = "Get" /\ ToLower(op.key) \notin DOMAIN carrier) =>
          op.got = EmptyStr
    /\ (op.name = "Get" /\ ToLower(op.key) \in DOMAIN carrier) =>
          op.got = carrier[ToLower(op.key)][1]
    /\ op.name = "Keys" =>
          /\ Len(op.keys) = Cardinality(DOMAIN carrier)
          /\ {op.keys[i] : i \in 1..Len(op.keys)} = DOMAIN carrier

\* C5 as stated: after Set(k, v) a following Get(k) returns v and the value
\* of every other key is unchanged; Get of an absent key returns "", Get of
\* a key with several values the first; Keys returns each key exactly once.
C5_RoundTripOriginal ==
    /\ CarrierBasics
    /\ (op.name = "Get" /\ prevOp.name = "Set" /\ op.key # prevOp.key) =>
          op.got = CarrierGet(prevOp.before, op.key)

\* C5 as amended: keys are compared without regard to letter case.  After
\* Set(k, v) a following Get(k) returns v (and so does Get of any key equal
\* to k up to letter case), and the value of every key that differs from k
\* by more than letter case is unchanged; the rest as stated.
C5_RoundTrip ==
    /\ CarrierBasics
    /\ (op.name = "Get" /\ prevOp.name = "Set"
            /\ ToLower(op.key) = ToLower(prevOp.key)) =>
          op.got = prevOp.value
    /\ (op.name = "Get" /\ prevOp.name = "Set"
            /\ ToLower(op.key) # ToLower(prevOp.key)) =>
          op.got = CarrierGet(prevOp.before, op.key)

C5_Witness ==
    /\ prevOp.name = "Set" /\ prevOp.key = XCustomMixed /\ prevOp.value = ValB
    /\ XTraceID \in DOMAIN prevOp.before /\ Len(prevOp.before[XTraceID]) > 1
    /\ op.name = "Get" /\ op.key = XTraceID /\ op.got = ValB

\* the label the claim gives a call whose handler returned err
ExpectedLabel(err) == IF err = NilErr THEN "OK" ELSE StatusCode(err)

\* one call at a time: every call begun before the one in flight is complete
MetricsCompleted ==
    started - Cardinality({c \in Calls : pc[c] \notin {"idle", "done"}})

\* C6: each call through the metrics interceptor makes exactly one counter
\* increment and one duration observation, both after the handler returned
\* and both under the label (method, OK) when the handler's error is nil and
\* (method, status code name of the error) otherwise; after n completed
\* calls the counter total is n and so is the number of observations.
C6_OneIncrementOneObservation ==
    /\ []((\A c \in Calls : pc[c] \in {"idle", "done"}) =>
              /\ CounterTotal = started
              /\ ObservationTotal = started)
    /\ [](\A c \in Calls :
            /\ pc[c] = "metrics.handler" =>
                  /\ events[c] = << >>
                  /\ CounterTotal = MetricsCompleted
                  /\ ObservationTotal = MetricsCompleted
            /\ pc[c] = "metrics.inc" =>
                  /\ events[c] = <<"handler">>
                  /\ CounterTotal = MetricsCompleted
                  /\ ObservationTotal = MetricsCompleted
            /\ pc[c] = "metrics.observe" =>
                  /\ events[c] = <<"handler", "counter.inc">>
                  /\ CounterTotal = MetricsCompleted + 1
                  /\ ObservationTotal = MetricsCompleted
            /\ (call[c].kind = "metrics" /\ pc[c] = "done") =>
                  events[c] = <<"handler", "counter.inc", "histogram.observe">>)
    /\ [][\A c \in Calls :
            LET label == <<call[c].method, ExpectedLabel(loc[c].err)>>
            IN  /\ (pc[c] = "metrics.inc" /\ pc'[c] = "metrics.observe") =>
                      GRPCRequestTotal' =
                          [GRPCRequestTotal EXCEPT ![label] = @ + 1]
                /\ (pc[c] = "metrics.observe" /\ pc'[c] = "done") =>
                      /\ GRPCRequestDuration'[label].count =
                             GRPCRequestDuration[label].count + 1
                      /\ \A l \in Labels \ {label} :
                             GRPCRequestDuration'[l] = GRPCRequestDuration[l]]_vars

C6_Witness ==
    \E c \in Calls :
        /\ call[c].kind = "metrics" /\ pc[c] = "done" /\ started = MaxCalls
        /\ loc[c].err = StatusErr("NotFound")
        /\ GRPCRequestTotal[<<call[c].method, "NotFound">>] = 1
        /\ GRPCRequestDuration[<<call[c].method, "NotFound">>].count = 1
        /\ CounterTotal = MaxCalls /\ ObservationTotal = MaxCalls

\* C7 as stated: the context passed to the handler carries as trace
\* identifier the first value of the inbound x-trace-id header when the
\* metadata has that header, else the trace identifier of the active span;
\* and as request identifier the first value of x-request-id when the
\* metadata has that header, else a freshly generated identifier.
C7_HeaderPrecedenceOriginal ==
    \A c \in Calls :
        (call[c].kind = "trace" /\ HandlerReturned(c)) =>
            /\ loc[c].seen.logTraceID =
                  (IF HasHeader(call[c].md, XTraceID)
                   THEN FirstValue(call[c].md, XTraceID)
                   ELSE TraceIDFromContext(loc[c].seen))
            /\ loc[c].seen.logRequestID =
                  (IF HasHeader(call[c].md, XRequestID)
                   THEN FirstValue(call[c].md, XRequestID)
                   ELSE generateRequestID(loc[c].gen))
            /\ HasHeader(call[c].md, XRequestID) => ~loc[c].genCalled

\* C7 as amended: a header counts only when its first value is not empty.
\* The trace identifier is the first value of x-trace-id when that value is
\* non-empty, else the trace identifier of the active span (none is stored
\* when that is empty as well); the request identifier is the first value of
\* x-request-id when that value is non-empty, else a freshly generated one.
C7_HeaderPrecedence ==
    \A c \in Calls :
        (call[c].kind = "trace" /\ HandlerReturned(c)) =>
            LET hasT == HasHeader(call[c].md, XTraceID)
                            /\ FirstValue(call[c].md, XTraceID) # EmptyStr
                hasR == HasHeader(call[c].md, XRequestID)
                            /\ FirstValue(call[c].md, XRequestID) # EmptyStr
            IN  /\ loc[c].seen.logTraceID =
                      (IF hasT THEN FirstValue(call[c].md, XTraceID)
                       ELSE TraceIDFromContext(loc[c].seen))
                /\ loc[c].seen.logRequestID =
                      (IF hasR THEN FirstValue(call[c].md, XRequestID)
                       ELSE generateRequestID(loc[c].gen))
                /\ loc[c].genCalled = ~hasR
                /\ loc[c].seen.logRequestID # EmptyStr

C7_Witness ==
    \E c \in Calls :
        /\ call[c].kind = "trace" /\ pc[c] = "done"
        /\ HasHeader(call[c].md, XTraceID)
        /\ Len(call[c].md.md[XTraceID]) > 1
        /\ TraceIDFromContext(loc[c].seen) = RemoteTrace
        /\ loc[c].seen.logTraceID = ValB
        /\ HasHeader(call[c].md, XRequestID)
        /\ FirstValue(call[c].md, XRequestID) = EmptyStr
        /\ Len(loc[c].seen.logRequestID) = RequestIDLen

\* C8: in every call of the trace server interceptor the span is started,
\* then a start event is logged (exactly when the trace or the request
\* identifier is non-empty), then the handler is invoked, then the span is
\* annotated with the method and the status code of the handler's error,
\* then exactly one closing event is logged (a failure event iff the
\* handler's error is non-nil), and last the span is ended, exactly once.
C8_EventOrder ==
    \A c \in Calls :
        call[c].kind = "trace" =>
            LET begin == IF loc[c].traceID # EmptyStr \/ loc[c].requestID # EmptyStr
                         THEN <<"span.start", "log.started">>
                         ELSE <<"span.start">>
                closing == IF loc[c].err # NilErr THEN "log.failed"
                           ELSE "log.completed"
            IN  /\ span[c].started /\ span[c].name = call[c].method
                /\ pc[c] = "trace.handler" =>
                      events[c] = begin /\ span[c].ended = 0
                /\ pc[c] = "trace.post" =>
                      events[c] = begin \o <<"handler">> /\ span[c].ended = 0
                /\ pc[c] = "done" =>
                      /\ events[c] = begin \o <<"handler", "span.attrs",
                                                closing, "span.end">>
                      /\ span[c].ended = 1
                      /\ span[c].attrs["rpc.method"] = call[c].method
                      /\ span[c].attrs["rpc.status_code"] = StatusCode(loc[c].err)

C8_Witness ==
    \E c \in Calls :
        /\ call[c].kind = "trace" /\ pc[c] = "done"
        /\ loc[c].err = StatusErr("Internal")
        /\ events[c] = <<"span.start", "log.started", "handler", "span.attrs",
                         "log.failed", "span.end">>
        /\ span[c].attrs["rpc.status_code"] = "Internal"

\* C9: in the client interceptor the span is started and the trace context
\* injected before the invoker is called; the invoker's context carries
\* outbound metadata holding every entry of the caller's outbound metadata
\* (but for the keys the propagator writes) plus the injected entries, over
\* a fresh empty collection when the caller had none; after the invoker
\* returns the span gets status code OK when the error is nil, otherwise the
\* error's status code name and the recorded error.
C9_ClientInjectsThenInvokes ==
    \A c \in Calls :
        call[c].kind = "client" =>
            LET theirs == IF call[c].md.ok THEN call[c].md.md ELSE EmptyMD
            IN  /\ pc[c] = "client.invoker" =>
                      events[c] = <<"span.start", "inject", "span.attrs">>
                /\ HandlerReturned(c) =>
                      /\ SubSeq(events[c], 1, 4) =
                            <<"span.start", "inject", "span.attrs", "invoker">>
                      /\ loc[c].seen.out.ok
                      /\ DOMAIN loc[c].seen.out.md = DOMAIN theirs \cup loc[c].wrote
                      /\ \A k \in DOMAIN theirs \ loc[c].wrote :
                            loc[c].seen.out.md[k] = theirs[k]
                      /\ \A k \in loc[c].wrote :
                            loc[c].seen.out.md[k] = <<TraceIDFromContext(loc[c].seen)>>
                /\ pc[c] = "done" =>
                      /\ span[c].ended = 1
                      /\ span[c].attrs["rpc.status_code"] = ExpectedLabel(loc[c].err)
                      /\ span[c].recorded = loc[c].err

C9_Witness ==
    \E c \in Calls :
        /\ call[c].kind = "client" /\ pc[c] = "done"
        /\ call[c].md.ok /\ DOMAIN call[c].md.md = {XCustom, TraceParent}
        /\ loc[c].wrote = {TraceParent}
        /\ loc[c].seen.out.md[XCustom] = <<ValB, ValA>>
        /\ loc[c].seen.out.md[TraceParent] = <<RemoteTrace>>
        /\ loc[c].err = PlainErr /\ span[c].recorded = PlainErr

\* metrics calls whose counter increment has happened
MetricsCounted ==
    started - Cardinality({c \in Calls : pc[c] \in {"metrics.handler", "metrics.inc"}})

\* C10: under any interleaving of concurrent calls, each handler sees in its
\* context only the identifiers of its own call (those of its own inbound
\* metadata, or the one generated for it), each call returns its own
\* handler's result, and the counter total is the number of calls that have
\* reported: the number of completed calls once no call is in flight.
C10_CallsIndependent ==
    /\ \A c \in Calls :
          /\ (HandlerReturned(c) /\ IsServer(c)) =>
                loc[c].seen.in = call[c].md
          /\ (HandlerReturned(c) /\ call[c].kind = "trace") =>
                /\ loc[c].seen.logTraceID =
                      (IF HasHeader(call[c].md, XTraceID)
                       THEN FirstValue(call[c].md, XTraceID)
                       ELSE TraceIDFromContext(loc[c].seen))
                /\ loc[c].seen.logRequestID =
                      (IF HasHeader(call[c].md, XRequestID)
                       THEN FirstValue(call[c].md, XRequestID)
                       ELSE generateRequestID(loc[c].gen))
          /\ ret[c].returned =>
                /\ ret[c].err = loc[c].err
                /\ IsServer(c) => ret[c].resp = loc[c].resp
    /\ CounterTotal = MetricsCounted
    /\ (\A c \in Calls : pc[c] \in {"idle", "done"}) =>
          /\ CounterTotal = started
          /\ ObservationTotal = started

C10_Witness ==
    \E c, d \in Calls :
        /\ c # d
        /\ pc[c] = "trace.post" /\ pc[d] = "trace.post"
        /\ loc[c].seen.logTraceID = ValA /\ loc[d].seen.logTraceID = ValB
        /\ loc[c].err # loc[d].err
        /\ CounterTotal = MaxCalls

====
